---------------------------- MODULE Spec2Model ----------------------------
(***************************************************************************)
(* Model of src/bot.py in four parts, each with its own specification:    *)
(*   Spec           the points-per-qualifying-game engine (fantasy_points  *)
(*                  and compute_ppg) over loaded pandas tables;            *)
(*   SpecBets       the bets table under addbet, editbet, standings and    *)
(*                  the body of weekly_job;                                *)
(*   SpecFetch      fetch_csv and its cache under a handler that compares  *)
(*                  the two sides of a bet;                                *)
(*   SpecWeekly     the clock, next_run_datetime and the ticks of          *)
(*                  weekly_job (SpecWeeklyFair: the loop keeps ticking).   *)
(*                                                                         *)
(* Representation of the engine                                            *)
(*   - a table is a sequence of records (row order is the frame's order);  *)
(*   - a text cell is a string (ids, team) or a sequence of one-character  *)
(*     strings (names, so that containment can be computed); the empty     *)
(*     cell, which read_csv loads as NaN, is "" resp. << >>;               *)
(*   - a numeric cell is an integer, or NaN for the empty cell;            *)
(*   - fantasy points are integers in hundredths of a point; inside        *)
(*     fantasy_points the running sum is kept in ten-thousandths so that   *)
(*     round(pts, 2) is a real rounding step;                              *)
(*   - pandas merges match a null key with a null key, so key equality in  *)
(*     the merges below is plain equality of cells, NaN included.          *)
(***************************************************************************)
EXTENDS Integers, Sequences, FiniteSets, TLC

VARIABLES stats, snaps, players, stat_columns, query, pc, cand, joined, missing, qualified, result

(* The bets table of bets.sqlite and what the last handler that ran on it  *)
(* did: its name, its reply, the values get_current_max_week gave to       *)
(* close_completed_bets and to the handler itself, and the week ranges it  *)
(* handed to compute_ppg.                                                  *)
VARIABLES bets, op, reply, close_max_week, max_week, calls

engineVars == <<stats, snaps, players, stat_columns, query, pc, cand, joined, missing, qualified, result>>

betVars == <<bets, op, reply, close_max_week, max_week, calls>>

(* The data layer under a handler that compares the two sides of a bet:    *)
(* the version of each remote file, the cache file of each (the version    *)
(* it holds and whether it is younger than the TTL), the await the handler *)
(* is at, the version each load of each side returned, and whether a load  *)
(* raised inside get_current_max_week.                                     *)
VARIABLES remote, cache, hpc, seen, swallowed

fetchVars == <<remote, cache, hpc, seen, swallowed>>

(* The weekly job: the clock (in units of 10 seconds since Monday 00:00 of *)
(* the running week), weekly_job.next_target on the same scale, and how    *)
(* the post of the latest tick ended.                                      *)
VARIABLES now, next_target, last_post

weeklyVars == <<now, next_target, last_post>>

vars == <<engineVars, betVars, fetchVars, weeklyVars>>

---------------------------------------------------------------------------
(* Bounds of the input tables that vary (the join inputs).                 *)
MaxStats == 3
MaxSnaps == 3
MaxPlayers == 1

(* Program constants.                                                      *)
SEASON == 2025

(* The value pandas gives an empty numeric cell; never a legal statistic,  *)
(* percentage or score.                                                    *)
NaN == -1000000

IsNaN(x) == x = NaN

Categories == {"receptions", "passing_yards", "passing_tds", "interceptions",
               "rushing_yards", "rushing_tds", "receiving_yards", "receiving_tds",
               "fumbles_lost"}

(* Weights in ten-thousandths of a point.                                  *)
(* Variant: the STD preset copied from HALF without zeroing receptions.    *)
SCORING_PRESETS_StdKeepsHalf ==
  [PPR  |-> [receptions |-> 10000, pass_yd |-> 400, pass_td |-> 40000, int |-> -20000,
             rush_yd |-> 1000, rush_td |-> 60000, rec_yd |-> 1000, rec_td |-> 60000,
             fumbles_lost |-> -20000],
   HALF |-> [receptions |-> 5000, pass_yd |-> 400, pass_td |-> 40000, int |-> -20000,
             rush_yd |-> 1000, rush_td |-> 60000, rec_yd |-> 1000, rec_td |-> 60000,
             fumbles_lost |-> -20000],
   STD  |-> [receptions |-> 5000, pass_yd |-> 400, pass_td |-> 40000, int |-> -20000,
             rush_yd |-> 1000, rush_td |-> 60000, rec_yd |-> 1000, rec_td |-> 60000,
             fumbles_lost |-> -20000]]

SCORING_PRESETS ==
  [PPR  |-> [receptions |-> 10000, pass_yd |-> 400, pass_td |-> 40000, int |-> -20000,
             rush_yd |-> 1000, rush_td |-> 60000, rec_yd |-> 1000, rec_td |-> 60000,
             fumbles_lost |-> -20000],
   HALF |-> [receptions |-> 5000, pass_yd |-> 400, pass_td |-> 40000, int |-> -20000,
             rush_yd |-> 1000, rush_td |-> 60000, rec_yd |-> 1000, rec_td |-> 60000,
             fumbles_lost |-> -20000],
   STD  |-> [receptions |-> 0, pass_yd |-> 400, pass_td |-> 40000, int |-> -20000,
             rush_yd |-> 1000, rush_td |-> 60000, rec_yd |-> 1000, rec_td |-> 60000,
             fumbles_lost |-> -20000]]

---------------------------------------------------------------------------
(* Generic helpers.                                                        *)

RECURSIVE Flatten(_)
Flatten(ss) == IF ss = << >> THEN << >> ELSE Head(ss) \o Flatten(Tail(ss))

RECURSIVE SumSeq(_)
SumSeq(s) == IF s = << >> THEN 0 ELSE Head(s) + SumSeq(Tail(s))

(* round(num/den) to the nearest integer, ties to even (den > 0).          *)
RoundDiv(num, den) ==
  LET q == num \div den
      r == num % den
  IN  IF 2 * r < den THEN q
      ELSE IF 2 * r > den THEN q + 1
      ELSE IF q % 2 = 0 THEN q ELSE q + 1

Range(s) == {s[i] : i \in 1..Len(s)}

(* Sequences of distinct elements of S of length at most n.                *)
RECURSIVE DistinctSeqs(_, _)
DistinctSeqs(S, n) ==
  IF n = 0 THEN {<< >>}
  ELSE LET shorter == DistinctSeqs(S, n - 1)
       IN  shorter \cup UNION {{Append(s, x) : x \in S \ Range(s)} :
                                s \in {t \in shorter : Len(t) = n - 1}}

---------------------------------------------------------------------------
(* fantasy_points, src/bot.py 131-143.                                     *)

(* g = lambda k: float(row.get(k, 0) or 0): a column the frame lacks gives *)
(* 0, a cell equal to 0 gives 0, any other cell is passed to float(); NaN  *)
(* is truthy, so an empty cell stays NaN.                                  *)
g(row, columns, k) ==
  IF k \notin columns THEN 0
  ELSE IF row[k] = 0 THEN 0
  ELSE row[k]

fantasy_points(row, columns, scoring) ==
  LET terms == << <<g(row, columns, "receptions"),      scoring.receptions>>,
                  <<g(row, columns, "passing_yards"),   scoring.pass_yd>>,
                  <<g(row, columns, "passing_tds"),     scoring.pass_td>>,
                  <<g(row, columns, "interceptions"),   scoring.int>>,
                  <<g(row, columns, "rushing_yards"),   scoring.rush_yd>>,
                  <<g(row, columns, "rushing_tds"),     scoring.rush_td>>,
                  <<g(row, columns, "receiving_yards"), scoring.rec_yd>>,
                  <<g(row, columns, "receiving_tds"),   scoring.rec_td>>,
                  <<g(row, columns, "fumbles_lost"),    scoring.fumbles_lost>> >>
      pts == SumSeq([i \in 1..Len(terms) |-> terms[i][1] * terms[i][2]])
  IN  IF \E i \in 1..Len(terms) : IsNaN(terms[i][1])
      THEN NaN                       \* NaN propagates through += and round()
      ELSE RoundDiv(pts, 100)        \* round(pts, 2)

---------------------------------------------------------------------------
(* The name step of compute_ppg, src/bot.py 154-160.                       *)

(* str.lower() on the letters that occur in the explored names.            *)
Lower(c) ==
  CASE c = "A" -> "a"
    [] c = "H" -> "h"
    [] c = "J" -> "j"
    [] c = "L" -> "l"
    [] c = "Z" -> "z"
    [] OTHER   -> c

LowerStr(s) == [i \in 1..Len(s) |-> Lower(s[i])]

(* Series.str.contains(pat) defaults to regex=True: the fragment is        *)
(* compiled as a regular expression.  Of the metacharacters only "." (any  *)
(* character) and "(" (an unterminated group, re.error) are explored.      *)
RegexCompiles(pat) == \A i \in 1..Len(pat) : pat[i] # "("

RegexMatchAt(pat, s, off) ==
  \A j \in 1..Len(pat) : pat[j] = "." \/ pat[j] = s[off + j]

RegexSearch(pat, s) ==
  \E off \in 0..(Len(s) - Len(pat)) : RegexMatchAt(pat, s, off)

(* Variant: the season filter without the season-type test.               *)
FilterSeason_AnyType(st) ==
  SelectSeq(st, LAMBDA r : r.season = SEASON)

(* stats[season == SEASON & season_type == "REG"], then the week range.    *)
FilterSeason(st) ==
  SelectSeq(st, LAMBDA r : r.season = SEASON /\ r.season_type = "REG")

FilterWeeks(st, start_week, end_week) ==
  SelectSeq(st, LAMBDA r : r.week >= start_week /\ r.week <= end_week)

(* The exceptions that can leave compute_ppg.                              *)
ReError == "re.error: missing ), unterminated subpattern"

MaskError == "ValueError: Cannot mask with non-boolean array containing NA / NaN values"

SetLenError == "ValueError: Must have equal len keys and value when setting with an iterable"

(* mask = stats["player_name"].str.lower().str.contains(player_name.lower()) *)
(* cand = stats[mask]: an invalid pattern raises re.error; a row with an   *)
(* empty (NaN) name makes the object-dtype mask hold NaN and the boolean   *)
(* indexing raises ValueError.                                             *)
NameStep(st, player_name) ==
  LET pat == LowerStr(player_name)
  IN  IF ~RegexCompiles(pat)
      THEN [error |-> ReError, rows |-> << >>]
      ELSE IF \E i \in 1..Len(st) : st[i].player_name = << >>
      THEN [error |-> MaskError, rows |-> << >>]
      ELSE [error |-> "",
            rows  |-> SelectSeq(st, LAMBDA r : RegexSearch(pat, LowerStr(r.player_name)))]

---------------------------------------------------------------------------
(* The joins of compute_ppg, src/bot.py 162-186.                           *)

(* Variant: the identity merge as an inner join, which drops the rows      *)
(* that have no identity record.                                           *)
MergeIdentity_Inner(cd, pl) ==
  Flatten([i \in 1..Len(cd) |->
    LET m == SelectSeq(pl, LAMBDA p : p.gsis_id = cd[i].player_id)
    IN  [j \in 1..Len(m) |->
           cd[i] @@ [gsis_id |-> m[j].gsis_id,
                     player_name_map |-> m[j].display_name,
                     pfr_id |-> m[j].pfr_id]]])

(* cand.merge(players_small, left_on="player_id", right_on="gsis_id",      *)
(* how="left"): left order kept, one output row per matching right row,    *)
(* one row with null right columns when none matches.                      *)
MergeIdentity(cd, pl) ==
  Flatten([i \in 1..Len(cd) |->
    LET m == SelectSeq(pl, LAMBDA p : p.gsis_id = cd[i].player_id)
    IN  IF m = << >>
        THEN << cd[i] @@ [gsis_id |-> "", player_name_map |-> << >>, pfr_id |-> ""] >>
        ELSE [j \in 1..Len(m) |->
                cd[i] @@ [gsis_id |-> m[j].gsis_id,
                          player_name_map |-> m[j].display_name,
                          pfr_id |-> m[j].pfr_id]]])

PrimaryKeyMatch(l, r) ==
  /\ l.season = r.season
  /\ l.week = r.week
  /\ l.team = r.team
  /\ l.pfr_id = r.pfr_player_id

FallbackKeyMatch(l, r) ==
  /\ l.season = r.season
  /\ l.week = r.week
  /\ l.team = r.team
  /\ l.player_name = r.player

(* cand.merge(snaps_small, left_on=[season, week, team, pfr_id],           *)
(* right_on=[season, week, team, pfr_player_id], how="left").              *)
PrimaryJoin(cd, sn) ==
  Flatten([i \in 1..Len(cd) |->
    LET m == SelectSeq(sn, LAMBDA r : PrimaryKeyMatch(cd[i], r))
    IN  IF m = << >>
        THEN << cd[i] @@ [player |-> << >>, pfr_player_id |-> "", offense_pct |-> NaN] >>
        ELSE [j \in 1..Len(m) |->
                cd[i] @@ [player |-> m[j].player,
                          pfr_player_id |-> m[j].pfr_player_id,
                          offense_pct |-> m[j].offense_pct]]])

(* missing = joined["offense_pct"].isna()                                  *)
Missing(jn) == [i \in 1..Len(jn) |-> IsNaN(jn[i].offense_pct)]

(* cand[missing]: the boolean Series is indexed 0..len(joined)-1 and is    *)
(* reindexed to cand's index 0..len(cand)-1, so cand row i is selected by  *)
(* the flag of joined row i (len(joined) >= len(cand) always).             *)
CandMissing(cd, ms) ==
  LET idx == {i \in 1..Len(cd) : ms[i]}
      RECURSIVE Pick(_)
      Pick(i) == IF i > Len(cd) THEN << >>
                 ELSE IF i \in idx THEN <<cd[i]>> \o Pick(i + 1)
                 ELSE Pick(i + 1)
  IN  Pick(1)

(* cand[missing].merge(snaps_small, left_on=[..., "player_name"],          *)
(* right_on=[..., "player"], how="left")["offense_pct"].values             *)
FallbackValues(rows, sn) ==
  Flatten([i \in 1..Len(rows) |->
    LET m == SelectSeq(sn, LAMBDA r : FallbackKeyMatch(rows[i], r))
    IN  IF m = << >> THEN << NaN >>
        ELSE [j \in 1..Len(m) |-> m[j].offense_pct]])

(* Number of TRUE flags among the first i entries of the mask.             *)
RECURSIVE CountTrue(_, _)
CountTrue(ms, i) ==
  IF i = 0 THEN 0 ELSE CountTrue(ms, i - 1) + (IF ms[i] THEN 1 ELSE 0)

(* joined.loc[missing, "offense_pct"] = values: the k-th flagged row takes *)
(* the k-th value (the caller has checked that the lengths agree).         *)
AssignMissing(jn, ms, values) ==
  [i \in 1..Len(jn) |->
     IF ms[i] THEN [jn[i] EXCEPT !.offense_pct = values[CountTrue(ms, i)]]
     ELSE jn[i]]

(* Variant: the frame without the fillna step.                             *)
FillNa_Skipped(jn) == jn

(* joined["offense_pct"].fillna(0.0)                                       *)
FillNa(jn) ==
  [i \in 1..Len(jn) |->
     IF IsNaN(jn[i].offense_pct) THEN [jn[i] EXCEPT !.offense_pct = 0] ELSE jn[i]]

---------------------------------------------------------------------------
(* The aggregation of compute_ppg, src/bot.py 187-194.                     *)

(* Variant: the comparison with the threshold turned round.                *)
Qualify_Reversed(jn, min_snap_pct) ==
  SelectSeq(jn, LAMBDA r : r.offense_pct <= min_snap_pct)

(* Variant: a strict comparison with the threshold.                        *)
Qualify_Strict(jn, min_snap_pct) ==
  SelectSeq(jn, LAMBDA r : r.offense_pct > min_snap_pct)

(* joined[joined["offense_pct"] >= float(min_snap_pct)]                    *)
Qualify(jn, min_snap_pct) ==
  SelectSeq(jn, LAMBDA r : r.offense_pct >= min_snap_pct)

(* qualified["fp"] = qualified.apply(fantasy_points) adds the fp column;   *)
(* qualified["fp"].mean() skips NaN entries (skipna); the mean of no       *)
(* entries is NaN; round(ppg, 2).                                          *)
MeanFp(fps) ==
  LET defined == SelectSeq(fps, LAMBDA x : ~IsNaN(x))
  IN  IF defined = << >> THEN NaN
      ELSE RoundDiv(SumSeq(defined), Len(defined))

Ok(ppg, n) == [status |-> "ok", error |-> "", ppg |-> ppg, n |-> n]

Raised(e) == [status |-> "error", error |-> e, ppg |-> 0, n |-> 0]

NoResult == [status |-> "none", error |-> "", ppg |-> 0, n |-> 0]

(* compute_ppg over loaded tables: every intermediate frame and the        *)
(* outcome (a returned pair or the exception that propagates).             *)
compute_ppg(st, sn, pl, columns, q) ==
  LET scoring == SCORING_PRESETS[q.scoring_key]
      inrange == FilterWeeks(FilterSeason(st), q.start_week, q.end_week)
      named   == NameStep(inrange, q.player_name)
      cd      == MergeIdentity(named.rows, pl)
      jn0     == PrimaryJoin(cd, sn)
      ms      == Missing(jn0)
      anyMiss == \E i \in 1..Len(ms) : ms[i]
      values  == FallbackValues(CandMissing(cd, ms), sn)
      lenOk   == Len(values) = CountTrue(ms, Len(ms))
      jn      == FillNa(IF anyMiss THEN AssignMissing(jn0, ms, values) ELSE jn0)
      ql      == Qualify(jn, q.min_snap_pct)
      qf      == [i \in 1..Len(ql) |->
                    ql[i] @@ [fp |-> fantasy_points(ql[i], columns, scoring)]]
      empty   == [cand |-> << >>, joined |-> << >>, missing |-> << >>, qualified |-> << >>]
  IN  IF named.error # ""
      THEN empty @@ [result |-> Raised(named.error)]
      ELSE IF named.rows = << >>
      THEN empty @@ [result |-> Ok(0, 0)]
      ELSE IF anyMiss /\ ~lenOk
      THEN [cand |-> cd, joined |-> jn0, missing |-> ms, qualified |-> << >>,
            result |-> Raised(SetLenError)]
      ELSE IF ql = << >>
      THEN [cand |-> cd, joined |-> jn, missing |-> ms, qualified |-> << >>,
            result |-> Ok(0, 0)]
      ELSE [cand |-> cd, joined |-> jn, missing |-> ms, qualified |-> qf,
            result |-> Ok(MeanFp([i \in 1..Len(qf) |-> qf[i].fp]), Len(qf))]

---------------------------------------------------------------------------
(* The explored inputs.                                                    *)

nAl  == <<"A", "l">>
nHal == <<"H", "a", "l">>
nAJ  == <<"A", ".", "J">>
nZed == <<"Z", "e", "d">>

ZeroLine ==
  [receptions |-> 0, passing_yards |-> 0, passing_tds |-> 0, interceptions |-> 0,
   rushing_yards |-> 0, rushing_tds |-> 0, receiving_yards |-> 0, receiving_tds |-> 0,
   fumbles_lost |-> 0]

(* 5 receptions, 80 receiving yards, 1 receiving touchdown.                *)
LineA == [ZeroLine EXCEPT !.receptions = 5, !.receiving_yards = 80, !.receiving_tds = 1]

(* A passer's line with a negative rushing total and both turnovers.       *)
LineQB == [ZeroLine EXCEPT !.passing_yards = 251, !.passing_tds = 2, !.interceptions = 1,
                           !.rushing_yards = -3, !.fumbles_lost = 1]

(* LineA with an empty receptions cell.                                    *)
LineNaN == [LineA EXCEPT !.receptions = NaN]

(* 1 reception for 1 yard: 1.10 / 0.60 / 0.10 points.                      *)
LineOne == [ZeroLine EXCEPT !.receptions = 1, !.receiving_yards = 1]

StatRow(season, season_type, week, player_id, player_name, line) ==
  [season |-> season, season_type |-> season_type, week |-> week, team |-> "BUF",
   player_id |-> player_id, player_name |-> player_name] @@ line

SnapRecord(week, pfr_player_id, player, offense_pct) ==
  [season |-> SEASON, week |-> week, team |-> "BUF", player |-> player,
   pfr_player_id |-> pfr_player_id, offense_pct |-> offense_pct]

IdentityRecord(gsis_id, display_name, pfr_id) ==
  [gsis_id |-> gsis_id, display_name |-> display_name, pfr_id |-> pfr_id]

Query(player_name, start_week, end_week, min_snap_pct, scoring_key) ==
  [player_name |-> player_name, start_week |-> start_week, end_week |-> end_week,
   min_snap_pct |-> min_snap_pct, scoring_key |-> scoring_key]

(* Join inputs: two players whose names both contain "al", two weeks.      *)
JoinStatPool ==
  {StatRow(SEASON, "REG", 1, "g1", nAl, LineA),
   StatRow(SEASON, "REG", 2, "g1", nAl, LineQB),
   StatRow(SEASON, "REG", 1, "g2", nHal, LineQB),
   StatRow(SEASON, "REG", 2, "g2", nHal, LineOne)}

(* Identity records: g1 with a secondary identifier, g2 without one.       *)
IdentityPool ==
  {IdentityRecord("g1", nAl, "p1"),
   IdentityRecord("g2", nHal, "")}

(* Snap records of week 1: two with the same keys, one without an          *)
(* identifier for a third player, one reachable by its name.               *)
SnapPool ==
  {SnapRecord(1, "p1", nAl, 40),
   SnapRecord(1, "p1", nAl, 10),
   SnapRecord(1, "", nZed, 70),
   SnapRecord(1, "p2", nHal, 25)}

AllColumns == Categories

(* The weekly file without the two turnover columns.                       *)
FewerColumns == Categories \ {"interceptions", "fumbles_lost"}

InitJoin ==
  /\ stats \in DistinctSeqs(JoinStatPool, MaxStats)
  /\ players \in DistinctSeqs(IdentityPool, MaxPlayers)
  /\ snaps \in DistinctSeqs(SnapPool, MaxSnaps)
  /\ stat_columns = AllColumns
  /\ query = Query(<<"a", "l">>, 1, 2, 25, "PPR")

(* Scoring inputs: the stat lines vary, the joins are plain.               *)
ScoreStatPool ==
  {StatRow(SEASON, "REG", 1, "g1", nAl, LineA),
   StatRow(SEASON, "REG", 2, "g1", nAl, LineQB),
   StatRow(SEASON, "REG", 1, "g2", nHal, LineNaN),
   StatRow(SEASON, "REG", 2, "g2", nHal, LineOne)}

ScoreSnaps ==
  <<SnapRecord(1, "p1", nAl, 10), SnapRecord(2, "p1", nAl, 40), SnapRecord(1, "p2", nHal, 25)>>

InitScore ==
  /\ stats \in DistinctSeqs(ScoreStatPool, MaxStats)
  /\ players = <<IdentityRecord("g1", nAl, "p1"), IdentityRecord("g2", nHal, "p2")>>
  /\ snaps = ScoreSnaps
  /\ stat_columns \in {AllColumns, FewerColumns}
  /\ query \in {Query(<<"a", "l">>, 1, 2, t, k) : t \in {0, 25, 40}, k \in {"PPR", "HALF", "STD"}}

(* Name inputs: names, fragments, seasons and week ranges vary.            *)
NameStatPool ==
  {StatRow(SEASON, "REG", 1, "g1", nAl, LineA),
   StatRow(SEASON, "REG", 2, "g2", nHal, LineOne),
   StatRow(SEASON, "REG", 1, "g3", nAJ, LineQB),
   StatRow(SEASON, "REG", 2, "g4", << >>, LineOne),
   StatRow(SEASON, "POST", 1, "g1", nAl, LineQB),
   StatRow(SEASON - 1, "REG", 2, "g1", nAl, LineQB)}

FragmentPool ==
  {<<"a", "l">>, <<"A", "L">>, <<"a", ".">>, <<"(">>, <<"x">>}

InitName ==
  /\ stats \in DistinctSeqs(NameStatPool, MaxStats)
  /\ players = <<IdentityRecord("g1", nAl, "p1")>>
  /\ snaps = <<SnapRecord(1, "p1", nAl, 40), SnapRecord(2, "p1", nAl, 10)>>
  /\ stat_columns = AllColumns
  /\ query \in {Query(f, w[1], w[2], 0, "PPR") :
                  f \in FragmentPool, w \in {<<1, 1>>, <<1, 2>>, <<2, 2>>}}

---------------------------------------------------------------------------
(* The state machine of one compute_ppg call.                              *)

(* An empty bets table and no handler run on it yet (db_init, 74-102).     *)
InitNoBets ==
  /\ bets = << >>
  /\ op = "none"
  /\ reply = ""
  /\ close_max_week = 0
  /\ max_week = 0
  /\ calls = {}

(* The weekly job is not started.                                          *)
InitNoWeekly ==
  /\ now = 0
  /\ next_target = 0
  /\ last_post = "none"

(* The files as published once, no cache file, no handler running.        *)
Tables == {"player_stats", "snap_counts", "players"}

NoFile == [version |-> 0, fresh |-> FALSE]

NothingSeen == [side \in {"a", "b"} |-> [t \in Tables |-> 0]]

InitNoFetch ==
  /\ remote = [t \in Tables |-> 1]
  /\ cache = [t \in Tables |-> NoFile]
  /\ hpc = "idle"
  /\ seen = NothingSeen
  /\ swallowed = FALSE

Init ==
  /\ InitJoin \/ InitScore \/ InitName
  /\ pc = "idle"
  /\ cand = << >>
  /\ joined = << >>
  /\ missing = << >>
  /\ qualified = << >>
  /\ result = NoResult
  /\ InitNoBets
  /\ InitNoFetch
  /\ InitNoWeekly

(* compute_ppg is entered: the preset is looked up and the three tables    *)
(* are loaded (src/bot.py 149-152).                                        *)
Call ==
  /\ pc = "idle"
  /\ query.scoring_key \in DOMAIN SCORING_PRESETS
  /\ pc' = "loaded"
  /\ UNCHANGED <<stats, snaps, players, stat_columns, query, cand, joined, missing,
                 qualified, result>>
  /\ UNCHANGED <<betVars, fetchVars, weeklyVars>>

(* The synchronous body of compute_ppg (src/bot.py 154-194).               *)
Compute ==
  /\ pc = "loaded"
  /\ LET out == compute_ppg(stats, snaps, players, stat_columns, query)
     IN  /\ cand' = out.cand
         /\ joined' = out.joined
         /\ missing' = out.missing
         /\ qualified' = out.qualified
         /\ result' = out.result
  /\ pc' = "done"
  /\ UNCHANGED <<stats, snaps, players, stat_columns, query>>
  /\ UNCHANGED <<betVars, fetchVars, weeklyVars>>

(* The caller has taken the pair (or the exception); the frame is gone.    *)
Return ==
  /\ pc = "done"
  /\ pc' = "idle"
  /\ cand' = << >>
  /\ joined' = << >>
  /\ missing' = << >>
  /\ qualified' = << >>
  /\ result' = NoResult
  /\ UNCHANGED <<stats, snaps, players, stat_columns, query>>
  /\ UNCHANGED <<betVars, fetchVars, weeklyVars>>

Next == Call \/ Compute \/ Return

Spec == Init /\ [][Next]_vars

---------------------------------------------------------------------------
(* Vocabulary of the properties.                                           *)

Done == pc = "done"

StatFields == {"season", "season_type", "week", "team", "player_id", "player_name"} \cup Categories

CandFields == StatFields \cup {"gsis_id", "player_name_map", "pfr_id"}

(* The stat row, resp. the enriched stat row, a frame row was built from.  *)
StatPart(r) == [f \in StatFields |-> r[f]]

CandPart(r) == [f \in CandFields |-> r[f]]

(* The stat rows of the queried season, season type and week range.        *)
InRange == FilterWeeks(FilterSeason(stats), query.start_week, query.end_week)

(* Literal, case-insensitive substring containment.                        *)
LiteralContains(fragment, name) ==
  LET f == LowerStr(fragment)
      n == LowerStr(name)
  IN  \E off \in 0..(Len(n) - Len(f)) : \A j \in 1..Len(f) : f[j] = n[off + j]

PrimaryMatches(c) == {k \in 1..Len(snaps) : PrimaryKeyMatch(c, snaps[k])}

FallbackMatches(c) == {k \in 1..Len(snaps) : FallbackKeyMatch(c, snaps[k])}

(* The percentages a row is meant to carry: those of its primary matches,  *)
(* else those of its name matches, else the 0.0 default.                   *)
IntendedPcts(c) ==
  LET pm == SelectSeq(snaps, LAMBDA r : PrimaryKeyMatch(c, r))
      fm == SelectSeq(snaps, LAMBDA r : FallbackKeyMatch(c, r))
  IN  IF pm # << >> THEN [j \in 1..Len(pm) |-> pm[j].offense_pct]
      ELSE IF fm # << >> THEN [j \in 1..Len(fm) |-> fm[j].offense_pct]
      ELSE << 0 >>

IntendedJoin ==
  Flatten([i \in 1..Len(cand) |->
             [j \in 1..Len(IntendedPcts(cand[i])) |-> <<cand[i], IntendedPcts(cand[i])[j]>>]])

ActualJoin == [j \in 1..Len(joined) |-> <<CandPart(joined[j]), joined[j].offense_pct>>]

(* The weight, in ten-thousandths, of a category under a preset name.      *)
ExpectedWeight(key, category) ==
  CASE category = "receptions" ->
         (CASE key = "PPR" -> 10000 [] key = "HALF" -> 5000 [] key = "STD" -> 0)
    [] category = "passing_yards"   -> 400
    [] category = "passing_tds"     -> 40000
    [] category = "interceptions"   -> -20000
    [] category = "rushing_yards"   -> 1000
    [] category = "rushing_tds"     -> 60000
    [] category = "receiving_yards" -> 1000
    [] category = "receiving_tds"   -> 60000
    [] category = "fumbles_lost"    -> -20000

RECURSIVE SumOver(_, _)
SumOver(S, f) ==
  IF S = {} THEN 0
  ELSE LET x == CHOOSE y \in S : TRUE IN f[x] + SumOver(S \ {x}, f)

(* The categories of a row that are present: a column of the file with a   *)
(* non-empty cell.                                                         *)
Present(r) == {c \in Categories : c \in stat_columns /\ ~IsNaN(r[c])}

(* The weighted sum of the present categories, rounded to 2 decimals.      *)
PresentScore(r, key) ==
  RoundDiv(SumOver(Present(r), [c \in Categories |-> r[c] * ExpectedWeight(key, c)]), 100)

(* The weighted sum in floating point: NaN as soon as one cell of a        *)
(* column of the file is NaN.                                              *)
FloatScore(r, key) ==
  IF \E c \in stat_columns : IsNaN(r[c]) THEN NaN ELSE PresentScore(r, key)

RowOrders(n) == {f \in [1..n -> 1..n] : \A i, j \in 1..n : f[i] = f[j] => i = j}

---------------------------------------------------------------------------
(* C1: every resolved row with no snap record on the primary key and       *)
(* exactly one on the name key carries that record's percentage, whatever  *)
(* the other rows of the query are; rows matched on the primary key keep   *)
(* a primary value.                                                        *)
C1_FallbackValueAttached ==
  Done /\ cand # << >> =>
    /\ \A i \in 1..Len(cand) :
         PrimaryMatches(cand[i]) = {} /\ Cardinality(FallbackMatches(cand[i])) = 1 =>
           /\ result.status = "ok"
           /\ \E j \in 1..Len(joined) : CandPart(joined[j]) = cand[i]
           /\ \A j \in 1..Len(joined) :
                CandPart(joined[j]) = cand[i] =>
                  \A k \in FallbackMatches(cand[i]) :
                    joined[j].offense_pct = snaps[k].offense_pct
    /\ \A j \in 1..Len(joined) :
         ~missing[j] =>
           \E k \in PrimaryMatches(joined[j]) : joined[j].offense_pct = snaps[k].offense_pct

(* C2: a resolved row whose secondary identifier is undefined gets no      *)
(* percentage from the primary join; its percentage is a name-keyed        *)
(* fallback value or the 0.0 default.                                      *)
C2_UndefinedIdNeverPrimary ==
  Done =>
    \A j \in 1..Len(joined) :
      joined[j].pfr_id = "" =>
        /\ missing[j]
        /\ result.status = "ok" =>
             joined[j].offense_pct \in
               {0} \cup {snaps[k].offense_pct : k \in FallbackMatches(joined[j])}

(* C3: with a snap source unique on both keys and an identity map unique   *)
(* per canonical id, the rows that reach the threshold filter are, one for *)
(* one and in order, the stat rows matched by the name step, each with one *)
(* defined percentage.                                                     *)
SnapsUniquePerId ==
  \A a, b \in 1..Len(snaps) :
    a # b => ~(/\ snaps[a].season = snaps[b].season
               /\ snaps[a].week = snaps[b].week
               /\ snaps[a].team = snaps[b].team
               /\ snaps[a].pfr_player_id = snaps[b].pfr_player_id)

SnapsUniquePerName ==
  \A a, b \in 1..Len(snaps) :
    a # b => ~(/\ snaps[a].season = snaps[b].season
               /\ snaps[a].week = snaps[b].week
               /\ snaps[a].team = snaps[b].team
               /\ snaps[a].player = snaps[b].player)

IdentityUnique ==
  \A a, b \in 1..Len(players) : a # b => players[a].gsis_id # players[b].gsis_id

Resolved == NameStep(InRange, query.player_name)

C3_OneToOne ==
  Done /\ SnapsUniquePerId /\ SnapsUniquePerName /\ IdentityUnique /\ Resolved.error = "" =>
    /\ result.status = "ok"
    /\ Len(joined) = Len(Resolved.rows)
    /\ \A i \in 1..Len(joined) :
         /\ StatPart(joined[i]) = Resolved.rows[i]
         /\ ~IsNaN(joined[i].offense_pct)

(* Three resolved rows, one served by the primary join and one not.        *)
C3_Witness ==
  /\ Done /\ SnapsUniquePerId /\ SnapsUniquePerName /\ IdentityUnique
  /\ Len(Resolved.rows) >= 2
  /\ Len(joined) = Len(Resolved.rows)
  /\ \E i, j \in 1..Len(joined) :
       /\ missing[i] /\ joined[i].offense_pct > 0
       /\ ~missing[j]

(* C4: when the snap source holds several records with the primary key or  *)
(* the name key of a resolved row, the call returns, and the frame is the  *)
(* one-to-many expansion: each row once per matching record, with that     *)
(* record's percentage.                                                    *)
C4_DuplicatesExpand ==
  Done /\ (\E i \in 1..Len(cand) : \/ Cardinality(PrimaryMatches(cand[i])) >= 2
                                   \/ Cardinality(FallbackMatches(cand[i])) >= 2) =>
    /\ result.status = "ok"
    /\ ActualJoin = IntendedJoin

(* C5: a returned count is never negative and a count of 0 comes with      *)
(* 0.0; a fragment contained in no name, and resolved rows none of which   *)
(* meets the threshold, both return (0.0, 0).                              *)
C5_EmptyIsZeroZero ==
  Done =>
    /\ result.status = "ok" => result.n >= 0 /\ (result.n = 0 => result.ppg = 0)
    /\ (\A i \in 1..Len(InRange) : ~LiteralContains(query.player_name, InRange[i].player_name))
         => result = Ok(0, 0)
    /\ (cand # << >> /\ \A j \in 1..Len(IntendedJoin) : IntendedJoin[j][2] < query.min_snap_pct)
         => result = Ok(0, 0)

(* C6: an absent category (no column, or an empty cell) contributes 0: the *)
(* score of every scored row is the weighted sum of its present            *)
(* categories, and the mean over such rows is a number.                    *)
C6_AbsentContributesZero ==
  Done /\ result.status = "ok" =>
    /\ \A i \in 1..Len(qualified) :
         qualified[i].fp = PresentScore(qualified[i], query.scoring_key)
    /\ result.n > 0 => ~IsNaN(result.ppg)

(* C7: the returned count is the number of frame rows whose percentage is  *)
(* at least the threshold, exactly those rows are scored, and the mean is  *)
(* taken over them only; percentages 10 and 40 under threshold 25 give     *)
(* count 1 and the second row's score.                                     *)
AtLeastThreshold == {i \in 1..Len(joined) : joined[i].offense_pct >= query.min_snap_pct}

C7_InclusiveThreshold ==
  Done /\ result.status = "ok" =>
    /\ result.n = Cardinality(AtLeastThreshold)
    /\ Len(qualified) = result.n
    /\ \A i \in 1..Len(joined) :
         (i \in AtLeastThreshold) <=>
           \E k \in 1..Len(qualified) :
             CandPart(qualified[k]) = CandPart(joined[i])
             /\ qualified[k].offense_pct = joined[i].offense_pct
    /\ result.n > 0 => result.ppg = MeanFp([k \in 1..Len(qualified) |-> qualified[k].fp])
    /\ (/\ Len(joined) = 2
        /\ joined[1].offense_pct = 10
        /\ joined[2].offense_pct = 40
        /\ query.min_snap_pct = 25)
         => /\ result.n = 1
            /\ result.ppg = FloatScore(joined[2], query.scoring_key)

(* A row exactly at the threshold counts while a row below it does not.    *)
C7_Witness ==
  /\ Done /\ result.status = "ok"
  /\ query.min_snap_pct > 0
  /\ \E i, j \in 1..Len(joined) :
       /\ joined[i].offense_pct = query.min_snap_pct
       /\ joined[j].offense_pct < query.min_snap_pct
  /\ result.n >= 1
  /\ result.n < Len(joined)

(* C8: the returned mean is the sum of the scores of all qualifying rows   *)
(* divided by the returned count, rounded to 2 decimals, and no            *)
(* permutation of the stat rows changes the outcome.                       *)
C8_MeanOfQualifying ==
  Done =>
    /\ result.status = "ok" /\ result.n > 0 =>
         result.ppg =
           (IF \E i \in 1..Len(qualified) : IsNaN(qualified[i].fp) THEN NaN
            ELSE RoundDiv(SumSeq([i \in 1..Len(qualified) |-> qualified[i].fp]), result.n))
    /\ \A f \in RowOrders(Len(stats)) :
         compute_ppg([i \in 1..Len(stats) |-> stats[f[i]]], snaps, players, stat_columns,
                     query).result = result

(* C9: the score of a row is the weighted sum over the nine categories     *)
(* with the weights of the preset (receptions 1.0, 0.5, 0.0; the other     *)
(* eight the same in all presets), rounded to 2 decimals; 5 receptions, 80 *)
(* receiving yards and 1 receiving touchdown score 19.00 under PPR.        *)
C9_WeightedSum ==
  Done =>
    \A i \in 1..Len(qualified) :
      /\ qualified[i].fp = FloatScore(qualified[i], query.scoring_key)
      /\ (/\ qualified[i].receptions = 5
          /\ qualified[i].receiving_yards = 80
          /\ qualified[i].receiving_tds = 1
          /\ \A c \in Categories \ {"receptions", "receiving_yards", "receiving_tds"} :
               qualified[i][c] = 0
          /\ query.scoring_key = "PPR")
           => qualified[i].fp = 1900

(* A row with receptions has been scored under the zero-point preset.      *)
C9_Witness ==
  /\ Done /\ query.scoring_key = "STD"
  /\ \E i \in 1..Len(qualified) :
       /\ qualified[i].receptions = 5
       /\ qualified[i].receiving_yards = 80
       /\ qualified[i].receiving_tds = 1
       /\ qualified[i].fp = 1400

(* C10: the name step matches exactly the rows whose name contains the     *)
(* fragment as a literal substring, case-insensitively, and raises for no  *)
(* fragment and no name.                                                   *)
C10_LiteralSubstring ==
  Done =>
    /\ result.error \notin {ReError, MaskError}
    /\ \A i \in 1..Len(InRange) :
         (\E j \in 1..Len(cand) : StatPart(cand[j]) = InRange[i])
           <=> LiteralContains(query.player_name, InRange[i].player_name)

---------------------------------------------------------------------------
(* C11: only stat rows of the current season, of season type REG and with  *)
(* start_week <= week <= end_week contribute: every row of the frames      *)
(* comes from such a row, and the outcome is the outcome on those rows     *)
(* alone.                                                                  *)
Contributing ==
  SelectSeq(stats, LAMBDA r : /\ r.season = SEASON
                              /\ r.season_type = "REG"
                              /\ query.start_week <= r.week
                              /\ r.week <= query.end_week)

C11_OnlyRowsInRange ==
  Done =>
    /\ \A i \in 1..Len(cand) : StatPart(cand[i]) \in Range(Contributing)
    /\ \A i \in 1..Len(joined) : StatPart(joined[i]) \in Range(Contributing)
    /\ \A i \in 1..Len(qualified) : StatPart(qualified[i]) \in Range(Contributing)
    /\ result = compute_ppg(Contributing, snaps, players, stat_columns, query).result

(* A row of another season type or season, or outside the week range,      *)
(* carries a matching name and is left out of a non-empty result.          *)
C11_Witness ==
  /\ Done /\ result.status = "ok" /\ result.n >= 1
  /\ \E i \in 1..Len(stats) :
       /\ stats[i] \notin Range(Contributing)
       /\ LiteralContains(query.player_name, stats[i].player_name)
       /\ \A j \in 1..Len(cand) : StatPart(cand[j]) # stats[i]

(* C15: with min_snap_pct = 0 the returned count is the number of rows of  *)
(* the frame, rows that matched neither join included; with unique keys    *)
(* that is the number of resolved rows.                                    *)
C15_ZeroThresholdAdmitsAll ==
  Done /\ result.status = "ok" /\ query.min_snap_pct = 0 =>
    /\ result.n = Len(joined)
    /\ Len(joined) >= Len(Resolved.rows)
    /\ SnapsUniquePerId /\ SnapsUniquePerName /\ IdentityUnique
         => result.n = Len(Resolved.rows)

(* A row that matched neither join has been counted under threshold 0.     *)
C15_Witness ==
  /\ Done /\ result.status = "ok" /\ query.min_snap_pct = 0
  /\ result.n >= 2
  /\ \E i \in 1..Len(joined) :
       /\ missing[i]
       /\ FallbackMatches(joined[i]) = {}
       /\ joined[i].offense_pct = 0

(* C16: for the same tables, fragment, week range and preset, a higher     *)
(* threshold never gives a higher count.                                   *)
Thresholds == {0, 25, 40, 100}

CountAt ==
  [t \in Thresholds |->
     compute_ppg(stats, snaps, players, stat_columns,
                 [query EXCEPT !.min_snap_pct = t]).result]

C16_CountMonotone ==
  Done /\ result.status = "ok" =>
    LET at == CountAt
    IN  /\ query.min_snap_pct \in Thresholds
        /\ at[query.min_snap_pct] = result
        /\ \A t1, t2 \in Thresholds :
             t1 <= t2 => at[t1].status = "ok" /\ at[t2].status = "ok" /\ at[t2].n <= at[t1].n

(* The count drops twice as the threshold rises.                           *)
C16_Witness ==
  /\ Done /\ result.status = "ok"
  /\ LET at == CountAt
     IN  at[0].n > at[25].n /\ at[25].n > at[100].n

---------------------------------------------------------------------------
(* The bets table and the handlers that write it (src/bot.py 214-464 and   *)
(* the body of weekly_job, 497-528).                                       *)
(*                                                                         *)
(* Representation                                                          *)
(*   - the table is a sequence of rows; AUTOINCREMENT and the absence of   *)
(*     any DELETE make the id of a row its position;                       *)
(*   - an Optional argument is a sequence of length at most one: << >> is  *)
(*     None, <<v>> is the value v;                                         *)
(*   - min_snap_pct is an integer number of percent;                       *)
(*   - player_b, description and participants are written by the same      *)
(*     unvalidated appends as player_a and are not carried.                *)

(* Bound of the bets table.                                                *)
MaxBets == 1

Min(a, b) == IF a <= b THEN a ELSE b

Max(a, b) == IF a >= b THEN a ELSE b

(* str.upper() on the scoring names that are entered.                      *)
Upper(s) ==
  CASE s = "ppr" -> "PPR"
    [] s = "std" -> "STD"
    [] s = "half" -> "HALF"
    [] s = "xyz" -> "XYZ"
    [] OTHER -> s

(* str.strip() on the player names that are entered.                       *)
Strip(s) ==
  CASE s = " Hal " -> "Hal"
    [] s = "Al " -> "Al"
    [] s = " " -> ""
    [] OTHER -> s

(* Python truth of an Optional[str]: neither None nor the empty string.    *)
Truthy(x) == x # << >> /\ x[1] # ""

NoPerms == [manage_guild |-> FALSE, administrator |-> FALSE]

user_can_edit(user_id, perms, creator_id) ==
  IF user_id = creator_id THEN TRUE
  ELSE perms.manage_guild \/ perms.administrator

(* get_current_max_week: the highest week of the current regular season    *)
(* in the loaded statistics, 0 when there is none and 0 when the load      *)
(* raises (loaded = FALSE).                                                *)
get_current_max_week(st, loaded) ==
  IF ~loaded THEN 0
  ELSE LET rows == SelectSeq(st, LAMBDA r : r.season = SEASON /\ r.season_type = "REG")
       IN  IF rows = << >> THEN 0
           ELSE CHOOSE w \in {rows[i].week : i \in 1..Len(rows)} :
                  \A i \in 1..Len(rows) : rows[i].week <= w

(* Variant: the UPDATE recomputes the flag of every row of the season.     *)
close_completed_bets_Recompute(db, mw) ==
  IF mw <= 0 THEN db
  ELSE [i \in 1..Len(db) |->
          IF db[i].season = SEASON
          THEN [db[i] EXCEPT !.is_active = IF db[i].end_week <= mw THEN 0 ELSE 1]
          ELSE db[i]]

(* close_completed_bets, given the value of get_current_max_week.          *)
close_completed_bets(db, mw) ==
  IF mw <= 0 THEN db
  ELSE [i \in 1..Len(db) |->
          IF db[i].season = SEASON /\ db[i].is_active = 1 /\ db[i].end_week <= mw
          THEN [db[i] EXCEPT !.is_active = 0]
          ELSE db[i]]

ScoringMessage == "Scoring must be one of: PPR, HALF, STD"

PctMessage == "min_snap_pct must be between 0 and 100"

(* addbet: the table and the reply.                                        *)
addbet(db, user_id, player_a, scoring, min_snap_pct, start_week, end_week) ==
  IF Upper(scoring) \notin DOMAIN SCORING_PRESETS
  THEN [bets |-> db, reply |-> ScoringMessage]
  ELSE IF ~(0 <= min_snap_pct /\ min_snap_pct <= 100)
  THEN [bets |-> db, reply |-> PctMessage]
  ELSE [bets |-> Append(db, [creator_discord_id |-> user_id,
                              player_a |-> Strip(player_a),
                              scoring |-> Upper(scoring),
                              min_snap_pct |-> min_snap_pct,
                              season |-> SEASON,
                              start_week |-> Max(1, start_week),
                              end_week |-> Min(end_week, 18),
                              is_active |-> 1]),
        reply |-> "created"]

(* The column assignments editbet collects for valid arguments.            *)
Updates(a) ==
  (IF Truthy(a.player_a) THEN "player_a" :> Strip(a.player_a[1]) ELSE << >>)
  @@ (IF Truthy(a.scoring) THEN "scoring" :> Upper(a.scoring[1]) ELSE << >>)
  @@ (IF a.min_snap_pct # << >> THEN "min_snap_pct" :> a.min_snap_pct[1] ELSE << >>)
  @@ (IF a.start_week # << >> THEN "start_week" :> Max(1, Min(18, a.start_week[1])) ELSE << >>)
  @@ (IF a.end_week # << >> THEN "end_week" :> Max(1, Min(18, a.end_week[1])) ELSE << >>)

(* UPDATE bets SET ... WHERE id = bet_id.                                  *)
UpdateRow(db, bet_id, updates) ==
  [db EXCEPT ![bet_id] = [c \in DOMAIN @ |-> IF c \in DOMAIN updates THEN updates[c] ELSE @[c]]]

(* Variant: the scoring name is written as soon as it is accepted.         *)
editbet_WritesAsItGoes(db, user_id, perms, bet_id, a) ==
  IF bet_id \notin DOMAIN db
  THEN [bets |-> db, reply |-> "Bet not found."]
  ELSE IF ~user_can_edit(user_id, perms, db[bet_id].creator_discord_id)
  THEN [bets |-> db, reply |-> "You don't have permission to edit this bet."]
  ELSE IF Truthy(a.scoring) /\ Upper(a.scoring[1]) \notin DOMAIN SCORING_PRESETS
  THEN [bets |-> db, reply |-> ScoringMessage]
  ELSE IF a.min_snap_pct # << >> /\ ~(0 <= a.min_snap_pct[1] /\ a.min_snap_pct[1] <= 100)
  THEN [bets |-> UpdateRow(db, bet_id, IF Truthy(a.scoring)
                                        THEN "scoring" :> Upper(a.scoring[1]) ELSE << >>),
        reply |-> PctMessage]
  ELSE IF DOMAIN Updates(a) = {}
  THEN [bets |-> db, reply |-> "Nothing to update. Provide at least one field."]
  ELSE [bets |-> UpdateRow(db, bet_id, Updates(a)), reply |-> "updated"]

(* editbet: the table and the reply.                                       *)
editbet(db, user_id, perms, bet_id, a) ==
  IF bet_id \notin DOMAIN db
  THEN [bets |-> db, reply |-> "Bet not found."]
  ELSE IF ~user_can_edit(user_id, perms, db[bet_id].creator_discord_id)
  THEN [bets |-> db, reply |-> "You don't have permission to edit this bet."]
  ELSE IF Truthy(a.scoring) /\ Upper(a.scoring[1]) \notin DOMAIN SCORING_PRESETS
  THEN [bets |-> db, reply |-> ScoringMessage]
  ELSE IF a.min_snap_pct # << >> /\ ~(0 <= a.min_snap_pct[1] /\ a.min_snap_pct[1] <= 100)
  THEN [bets |-> db, reply |-> PctMessage]
  ELSE IF DOMAIN Updates(a) = {}
  THEN [bets |-> db, reply |-> "Nothing to update. Provide at least one field."]
  ELSE [bets |-> UpdateRow(db, bet_id, Updates(a)), reply |-> "updated"]

(* The end week handed to compute_ppg (442 and 513).                       *)
end_w(e, mw) == Min(e, IF mw > 0 THEN mw ELSE e)

(* The week ranges of the compute_ppg calls made for the selected rows.    *)
WeekRanges(rows, mw) ==
  {[start_week |-> rows[i].start_week, end_week |-> end_w(rows[i].end_week, mw)] :
     i \in 1..Len(rows)}

(* Arguments of addbet: a scoring slice, a min_snap_pct slice and a week   *)
(* slice around the defaults.                                              *)
AddArgs(player_a, scoring, min_snap_pct, start_week, end_week) ==
  [player_a |-> player_a, scoring |-> scoring, min_snap_pct |-> min_snap_pct,
   start_week |-> start_week, end_week |-> end_week]

AddInputs ==
  {AddArgs("Al ", sc, 0, 0, 20) : sc \in {"ppr", "xyz"}}
  \cup {AddArgs("Al ", "PPR", p, 0, 20) : p \in {-1, 0, 101}}
  \cup {AddArgs("Al ", "PPR", 0, s, e) : s \in {0, 5}, e \in {3, 20}}

(* Arguments of editbet: every combination of an absent, a valid and an    *)
(* invalid value of the two validated fields, a new player_a ahead of      *)
(* each rejection, the empty strings and the negative percentage, and a    *)
(* week slice.                                                             *)
EditArgs(player_a, scoring, min_snap_pct, start_week, end_week) ==
  [player_a |-> player_a, scoring |-> scoring, min_snap_pct |-> min_snap_pct,
   start_week |-> start_week, end_week |-> end_week]

EditInputs ==
  {EditArgs(<< >>, sc, p, << >>, << >>) :
     sc \in {<< >>, <<"std">>, <<"xyz">>}, p \in {<< >>, <<100>>, <<101>>}}
  \cup {EditArgs(<<"Al ">>, << >>, << >>, << >>, << >>),
        EditArgs(<<"Al ">>, <<"xyz">>, << >>, << >>, << >>),
        EditArgs(<<"Al ">>, << >>, <<101>>, << >>, << >>),
        EditArgs(<<"">>, << >>, << >>, << >>, << >>),
        EditArgs(<< >>, <<"">>, << >>, << >>, << >>),
        EditArgs(<< >>, << >>, <<-1>>, <<5>>, << >>)}
  \cup {EditArgs(<< >>, << >>, << >>, s, e) : s \in {<< >>, <<0>>, <<5>>}, e \in {<< >>, <<20>>}}

(* Who calls editbet: the creator, and another member with each            *)
(* combination of the two permissions.                                     *)
Callers ==
  {[user_id |-> "u1", perms |-> NoPerms]}
  \cup {[user_id |-> "u2", perms |-> [manage_guild |-> m, administrator |-> a]] :
          m \in BOOLEAN, a \in BOOLEAN}

(* Published statistics: only rows outside the current regular season,    *)
(* and the regular season through week 4.                                  *)
PublishedPool ==
  {<<StatRow(SEASON, "POST", 19, "g1", nAl, LineA), StatRow(SEASON - 1, "REG", 9, "g1", nAl, LineA)>>,
   <<StatRow(SEASON, "REG", 4, "g1", nAl, LineA), StatRow(SEASON, "REG", 1, "g1", nAl, LineA),
     StatRow(SEASON, "POST", 19, "g1", nAl, LineA), StatRow(SEASON - 1, "REG", 9, "g1", nAl, LineA)>>}

InitBets ==
  /\ stats \in PublishedPool
  /\ snaps = << >>
  /\ players = << >>
  /\ stat_columns = AllColumns
  /\ query = Query(nAl, 1, 18, 0, "PPR")
  /\ pc = "idle"
  /\ cand = << >>
  /\ joined = << >>
  /\ missing = << >>
  /\ qualified = << >>
  /\ result = NoResult
  /\ InitNoBets
  /\ InitNoFetch
  /\ InitNoWeekly

AddBet ==
  /\ Len(bets) < MaxBets
  /\ \E a \in AddInputs :
       LET out == addbet(bets, "u1", a.player_a, a.scoring, a.min_snap_pct, a.start_week, a.end_week)
       IN  /\ bets' = out.bets
           /\ reply' = out.reply
  /\ op' = "addbet"
  /\ close_max_week' = 0
  /\ max_week' = 0
  /\ calls' = {}
  /\ UNCHANGED <<engineVars, fetchVars, weeklyVars>>

EditBet ==
  /\ \E bet_id \in 1..(MaxBets + 1), c \in Callers, a \in EditInputs :
       /\ c.user_id = "u1" \/ a = EditArgs(<< >>, << >>, <<100>>, << >>, << >>)
       /\ LET out == editbet(bets, c.user_id, c.perms, bet_id, a)
          IN  /\ bets' = out.bets
              /\ reply' = out.reply
  /\ op' = "editbet"
  /\ close_max_week' = 0
  /\ max_week' = 0
  /\ calls' = {}
  /\ UNCHANGED <<engineVars, fetchVars, weeklyVars>>

(* standings (425-464): the close, the handler's own max week, the active  *)
(* rows of the season and the two compute_ppg calls per row.  Each of the  *)
(* two loads of the statistics may raise inside get_current_max_week.      *)
Standings ==
  /\ \E loaded1 \in BOOLEAN, loaded2 \in BOOLEAN :
       LET mw1 == get_current_max_week(stats, loaded1)
           db == close_completed_bets(bets, mw1)
           mw == get_current_max_week(stats, loaded2)
           rows == SelectSeq(db, LAMBDA b : b.is_active = 1 /\ b.season = SEASON)
       IN  /\ bets' = db
           /\ close_max_week' = mw1
           /\ max_week' = mw
           /\ IF rows = << >>
              THEN calls' = {} /\ reply' = "No active bets yet."
              ELSE calls' = WeekRanges(rows, mw) /\ reply' = "Bet Standings"
  /\ op' = "standings"
  /\ UNCHANGED <<engineVars, fetchVars, weeklyVars>>

(* The body of weekly_job inside its time window (497-528): as standings,  *)
(* over every row of the season, when the channel is found.                *)
WeeklyPost ==
  /\ \E loaded1 \in BOOLEAN, loaded2 \in BOOLEAN, channel \in BOOLEAN :
       LET mw1 == get_current_max_week(stats, loaded1)
           db == close_completed_bets(bets, mw1)
           mw == get_current_max_week(stats, loaded2)
           rows == SelectSeq(db, LAMBDA b : b.season = SEASON)
       IN  /\ bets' = db
           /\ close_max_week' = mw1
           /\ max_week' = mw
           /\ IF ~channel
              THEN calls' = {} /\ reply' = ""
              ELSE IF rows = << >>
              THEN calls' = {} /\ reply' = "No bets yet."
              ELSE calls' = WeekRanges(rows, mw) /\ reply' = "Weekly Bet Standings"
  /\ op' = "weekly_job"
  /\ UNCHANGED <<engineVars, fetchVars, weeklyVars>>

NextBets == AddBet \/ EditBet \/ Standings \/ WeeklyPost

SpecBets == InitBets /\ [][NextBets]_vars

---------------------------------------------------------------------------
(* Properties of the bets table.                                           *)

Handlers == {"standings", "weekly_job"}

(* What is published, as a load that succeeds sees it.                     *)
PublishedWeek == get_current_max_week(stats, TRUE)

(* C12: every compute_ppg call that standings or weekly_job makes for a    *)
(* bet built by addbet and editbet receives a week range with              *)
(* 1 <= start_week <= end_week <= 18, the clamp of the end week to the     *)
(* highest published week included.                                        *)
C12_WeekRangeInBounds ==
  \A c \in calls : 1 <= c.start_week /\ c.start_week <= c.end_week /\ c.end_week <= 18

(* C19: is_active only moves from 1 to 0.  No step removes a row or makes  *)
(* a closed row active (an editbet that raises end_week included), a row   *)
(* is closed only by the close of a handler whose max week is positive     *)
(* and not below the row's end_week, and the close changes no row when     *)
(* its max week is 0 (nothing published, or the load raised).              *)
C19_ActiveOnlyFalls ==
  [][ /\ Len(bets') >= Len(bets)
      /\ \A i \in 1..Len(bets) :
           /\ bets[i].is_active = 0 => bets'[i].is_active = 0
           /\ bets[i].is_active = 1 /\ bets'[i].is_active = 0 =>
                /\ op' \in Handlers
                /\ close_max_week' > 0
                /\ bets[i].end_week <= close_max_week'
      /\ \A i \in 1..Len(bets') : bets'[i].is_active \in {0, 1}
      /\ op' \in Handlers /\ close_max_week' <= 0 => bets' = bets ]_vars

(* A closed bet whose end_week an editbet has raised above the published   *)
(* week, after a handler whose load raised: the bet is still closed.       *)
C19_Witness ==
  /\ op \in Handlers
  /\ close_max_week = 0
  /\ PublishedWeek > 0
  /\ \E i \in 1..Len(bets) : bets[i].is_active = 0 /\ bets[i].end_week > PublishedWeek

(* The conditions under which the bet must stay as it is: no such bet, a   *)
(* caller who is neither the creator nor holds one of the permissions, a   *)
(* scoring name outside the presets, a percentage outside [0, 100], no     *)
(* field.  An empty string is a field that is not supplied (370, 375).     *)
MustReject(db, c, bet_id, a) ==
  \/ bet_id \notin DOMAIN db
  \/ /\ bet_id \in DOMAIN db
     /\ c.user_id # db[bet_id].creator_discord_id
     /\ ~c.perms.manage_guild
     /\ ~c.perms.administrator
  \/ /\ Truthy(a.scoring)
     /\ Upper(a.scoring[1]) \notin {"PPR", "HALF", "STD"}
  \/ /\ a.min_snap_pct # << >>
     /\ (a.min_snap_pct[1] < 0 \/ a.min_snap_pct[1] > 100)
  \/ /\ ~Truthy(a.player_a) /\ ~Truthy(a.scoring) /\ a.min_snap_pct = << >>
     /\ a.start_week = << >> /\ a.end_week = << >>

(* C20: editbet is all-or-nothing.  On every reachable table, a call that  *)
(* must be rejected returns the table as it was, and every other call      *)
(* replies that the bet is updated; every stored bet has a preset scoring  *)
(* name and a min_snap_pct in [0, 100].                                    *)
C20_EditAllOrNothing ==
  /\ \A i \in 1..Len(bets) :
       /\ bets[i].scoring \in {"PPR", "HALF", "STD"}
       /\ 0 <= bets[i].min_snap_pct /\ bets[i].min_snap_pct <= 100
  /\ \A bet_id \in 1..(MaxBets + 1), c \in Callers, a \in EditInputs :
       LET out == editbet(bets, c.user_id, c.perms, bet_id, a)
       IN  IF MustReject(bets, c, bet_id, a)
           THEN out.bets = bets /\ out.reply # "updated"
           ELSE out.reply = "updated"
  /\ op = "editbet" /\ reply # "updated" => calls = {} /\ max_week = 0

(* A rejected editbet has run on a stored bet: its percentage was out of   *)
(* range, and the bet still has the scoring and percentage addbet gave it. *)
C20_Witness ==
  /\ op = "editbet"
  /\ reply = PctMessage
  /\ Len(bets) >= 1
  /\ bets[1].scoring = "PPR"
  /\ bets[1].min_snap_pct = 0

---------------------------------------------------------------------------
(* The data layer (fetch_csv, 105-129) under a handler that compares the   *)
(* two sides of one bet (standings 425-464, weekly_job 497-528).           *)
(*                                                                         *)
(* Representation                                                          *)
(*   - the content of a file is the number of its version; version v of    *)
(*     the statistics file holds the regular season through week v;        *)
(*   - a cache file is the version it holds (0: no file) and whether its   *)
(*     age is below CACHE_TTL_HOURS;                                       *)
(*   - the handler is at one of its awaits: the load inside the close, the *)
(*     load of its own max week, and the three loads of each side.         *)

(* Bound of the number of versions a remote file goes through.             *)
MaxVersion == 2

(* fetch_csv: the version returned (or the exception) and the cache after  *)
(* it; up tells whether the GET succeeds.                                  *)
fetch_csv(files, published, t, up) ==
  IF files[t].version # 0 /\ files[t].fresh
  THEN [raised |-> FALSE, version |-> files[t].version, cache |-> files]
  ELSE IF ~up
  THEN [raised |-> TRUE, version |-> 0, cache |-> files]
  ELSE [raised |-> FALSE, version |-> published[t],
        cache |-> [files EXCEPT ![t] = [version |-> published[t], fresh |-> TRUE]]]

(* The awaits of the handler in order, and the table each one loads.       *)
Awaits == <<"close", "max_week", "a_stats", "a_snaps", "a_players",
            "b_stats", "b_snaps", "b_players">>

AwaitIndex(at) == CHOOSE i \in 1..Len(Awaits) : Awaits[i] = at

AfterAwait(at) == IF AwaitIndex(at) = Len(Awaits) THEN "sent" ELSE Awaits[AwaitIndex(at) + 1]

SideOf(at) == IF at \in {"a_stats", "a_snaps", "a_players"} THEN "a" ELSE "b"

TableOf(at) ==
  CASE at \in {"a_stats", "b_stats"} -> "player_stats"
    [] at \in {"a_snaps", "b_snaps"} -> "snap_counts"
    [] at \in {"a_players", "b_players"} -> "players"

(* The bet that is compared: weeks 1 to 18 of the season.                  *)
OneBet == addbet(<< >>, "u1", "Al", "PPR", 25, 1, 18).bets

InitFetch ==
  /\ stats = << >>
  /\ snaps = << >>
  /\ players = << >>
  /\ stat_columns = AllColumns
  /\ query = Query(nAl, 1, 18, 25, "PPR")
  /\ pc = "idle"
  /\ cand = << >>
  /\ joined = << >>
  /\ missing = << >>
  /\ qualified = << >>
  /\ result = NoResult
  /\ bets = OneBet
  /\ op = "none"
  /\ reply = ""
  /\ close_max_week = 0
  /\ max_week = 0
  /\ calls = {}
  /\ InitNoFetch
  /\ InitNoWeekly

(* The remote file is replaced by its next version.                        *)
RemoteRefresh ==
  /\ \E t \in Tables :
       /\ remote[t] < MaxVersion
       /\ remote' = [remote EXCEPT ![t] = @ + 1]
  /\ UNCHANGED <<engineVars, betVars, weeklyVars, cache, hpc, seen, swallowed>>

(* A cache file reaches the age of CACHE_TTL_HOURS.                        *)
Expire ==
  /\ \E t \in Tables :
       /\ cache[t].version # 0
       /\ cache[t].fresh
       /\ cache' = [cache EXCEPT ![t].fresh = FALSE]
  /\ UNCHANGED <<engineVars, betVars, weeklyVars, remote, hpc, seen, swallowed>>

(* standings or weekly_job is entered.                                     *)
Invoke ==
  /\ hpc = "idle"
  /\ hpc' = "close"
  /\ \E h \in Handlers : op' = h
  /\ seen' = NothingSeen
  /\ swallowed' = FALSE
  /\ close_max_week' = 0
  /\ max_week' = 0
  /\ reply' = ""
  /\ calls' = {}
  /\ UNCHANGED <<engineVars, weeklyVars, bets, remote, cache>>

(* get_current_max_week, first inside close_completed_bets (with its       *)
(* UPDATE), then for the handler itself: an exception of the load is       *)
(* caught and 0 is returned.                                               *)
GetMaxWeek ==
  /\ hpc \in {"close", "max_week"}
  /\ \E up \in BOOLEAN :
       LET f == fetch_csv(cache, remote, "player_stats", up)
           mw == IF f.raised THEN 0 ELSE f.version
       IN  /\ cache' = f.cache
           /\ swallowed' = (swallowed \/ f.raised)
           /\ IF hpc = "close"
              THEN /\ close_max_week' = mw
                   /\ bets' = close_completed_bets(bets, mw)
                   /\ UNCHANGED max_week
              ELSE /\ max_week' = mw
                   /\ UNCHANGED <<close_max_week, bets>>
  /\ hpc' = AfterAwait(hpc)
  /\ UNCHANGED <<engineVars, weeklyVars, op, reply, calls, remote, seen>>

(* One of the three loads at the head of compute_ppg, for side a and then  *)
(* for side b: an exception leaves compute_ppg and the handler; after the  *)
(* last load the comparison is computed and sent.                          *)
Load ==
  /\ hpc \in {"a_stats", "a_snaps", "a_players", "b_stats", "b_snaps", "b_players"}
  /\ \E up \in BOOLEAN :
       LET f == fetch_csv(cache, remote, TableOf(hpc), up)
       IN  /\ cache' = f.cache
           /\ IF f.raised
              THEN /\ hpc' = "raised"
                   /\ UNCHANGED <<seen, calls, reply>>
              ELSE /\ seen' = [seen EXCEPT ![SideOf(hpc)][TableOf(hpc)] = f.version]
                   /\ hpc' = AfterAwait(hpc)
                   /\ calls' = IF hpc = "a_stats" THEN WeekRanges(bets, max_week) ELSE calls
                   /\ reply' = IF hpc = "b_players" THEN "Bet Standings" ELSE reply
  /\ UNCHANGED <<engineVars, weeklyVars, bets, op, close_max_week, max_week, remote, swallowed>>

(* The handler is left, by its reply or by the exception.                  *)
Finish ==
  /\ hpc \in {"sent", "raised"}
  /\ hpc' = "idle"
  /\ UNCHANGED <<engineVars, betVars, weeklyVars, remote, cache, seen, swallowed>>

NextFetch == RemoteRefresh \/ Expire \/ Invoke \/ GetMaxWeek \/ Load \/ Finish

SpecFetch == InitFetch /\ [][NextFetch]_vars

---------------------------------------------------------------------------
(* Properties of the data layer.                                           *)

(* C13: when the comparison of a bet is sent, each of the three tables     *)
(* was the same version for side a and for side b, whatever expired or     *)
(* was refreshed between the awaits.                                       *)
C13_SameSnapshot ==
  hpc = "sent" => \A t \in Tables : seen["a"][t] = seen["b"][t]

(* Every load of both sides returned a table when the comparison is sent.  *)
AllLoaded == \A side \in {"a", "b"}, t \in Tables : seen[side][t] # 0

(* C14: a load that raises inside compute_ppg leaves the handler with the  *)
(* exception, and no comparison is sent by a handler in which a load has   *)
(* raised and was turned into a number.                                    *)
C14_LoadFailureSurfaces ==
  /\ hpc = "sent" => AllLoaded
  /\ hpc = "raised" => ~AllLoaded
  /\ hpc = "sent" => ~swallowed

---------------------------------------------------------------------------
(* The weekly job (next_run_datetime, weekly_job, before_weekly; 484-535). *)
(*                                                                         *)
(* Representation                                                          *)
(*   - time is counted in units of 10 seconds from Monday 00:00 of the     *)
(*     running week (weekday 0 is Monday, as datetime.weekday());          *)
(*   - next_target is a Tuesday 12:00, on the same scale: of the running   *)
(*     week, of the next week, or of an earlier week; every earlier week   *)
(*     is written as the week before (Stale), from which the window test   *)
(*     of line 496 cannot tell it;                                         *)
(*   - the loop takes its ticks every 60 seconds as long as the body ends  *)
(*     within the interval, and right after the body otherwise;            *)
(*   - the loop is taken to go on after a post that raised.                *)

WEEKLY_POST_DAY == 1

WEEKLY_POST_HOUR == 12

WEEKLY_POST_MINUTE == 0

Minute == 6

Hour == 60 * Minute

Day == 24 * Hour

Week == 7 * Day

(* tasks.loop(seconds=60) and the window of line 496.                      *)
Interval == 6

Window == 3

(* Bound of the time the body of a tick in the window takes.               *)
MaxPost == 2

Abs(x) == IF x < 0 THEN -x ELSE x

(* next_run_datetime at the clock reading now_local.                       *)
next_run_datetime(now_local) ==
  LET weekday == now_local \div Day
      days_ahead == (WEEKLY_POST_DAY - weekday) % 7
      candidate == (weekday + days_ahead) * Day + WEEKLY_POST_HOUR * Hour
                   + WEEKLY_POST_MINUTE * Minute
  IN  IF candidate <= now_local THEN candidate + Week ELSE candidate

(* Tuesday 12:00 of the running week, and of the week before.              *)
ThisTarget == WEEKLY_POST_DAY * Day + WEEKLY_POST_HOUR * Hour + WEEKLY_POST_MINUTE * Minute

Stale == ThisTarget - Week

(* before_weekly, and the first tick is about to be taken: the bot may be  *)
(* started at any time of the week.                                        *)
InitWeekly ==
  /\ stats = << >>
  /\ snaps = << >>
  /\ players = << >>
  /\ stat_columns = AllColumns
  /\ query = Query(nAl, 1, 18, 25, "PPR")
  /\ pc = "idle"
  /\ cand = << >>
  /\ joined = << >>
  /\ missing = << >>
  /\ qualified = << >>
  /\ result = NoResult
  /\ InitNoBets
  /\ InitNoFetch
  /\ now \in 0..(Week - 1)
  /\ next_target = next_run_datetime(now)
  /\ last_post = "none"

(* One iteration of weekly_job and the wait for the next one.  In the      *)
(* window the body takes d units and ends by its message or by an          *)
(* exception; the finally clause reads the clock after it.  When the       *)
(* next tick falls into a new week, the scale moves with it.               *)
Tick ==
  /\ \E d \in 0..MaxPost, outcome \in {"sent", "raised"} :
       LET target == next_target
           served == Abs(now - target) <= Window
           installed == IF served THEN next_run_datetime(now + d) ELSE target
           next_tick == now + (IF served /\ d > Interval THEN d ELSE Interval)
       IN  /\ served \/ (d = 0 /\ outcome = "sent")
           /\ last_post' = IF served THEN outcome ELSE "none"
           /\ IF next_tick >= Week
              THEN /\ now' = next_tick - Week
                   /\ next_target' = Max(installed - Week, Stale)
              ELSE /\ now' = next_tick
                   /\ next_target' = installed
  /\ UNCHANGED <<engineVars, betVars, fetchVars>>

NextWeekly == Tick

SpecWeekly == InitWeekly /\ [][NextWeekly]_vars

(* The loop keeps ticking.                                                 *)
SpecWeeklyFair == SpecWeekly /\ WF_vars(Tick)

---------------------------------------------------------------------------
(* Properties of the weekly job.                                           *)

(* The tick that is about to be taken is within 30 seconds of next_target. *)
InWindow == Abs(now - next_target) <= Window

(* C17: a tick within 30 seconds of next_target, before or after it,       *)
(* leaves next_target strictly later than the target it served.            *)
C17_ServedTargetAdvances ==
  [][ InWindow => next_target' > next_target ]_vars

(* C18: while the loop keeps ticking, a next_target that the clock has     *)
(* passed by more than 30 seconds is eventually moved to a future time.    *)
C18_PastTargetIsReplaced ==
  (now - next_target > Window) ~> (next_target > now)

=============================================================================
